---- MODULE Spec2Model ----
(***************************************************************************)
(* The WebRTC signaling relay of backend/app/api/signaling.py:             *)
(* ConnectionManager (the room registry) and websocket_signaling (the      *)
(* per-connection handler), as cooperative tasks that can be interleaved   *)
(* at every await that suspends (accept, send_json, receive_json).         *)
(***************************************************************************)
EXTENDS Integers, Sequences, FiniteSets, TLC

\* ------------------------------------------------------------------ bounds
NumConns == 3      \* websocket connections the server sees, numbered in order of arrival
MaxMsgs  == 1      \* inbound frames read by all receive loops together
MaxDrops == 1      \* clients that go away while their handler runs
MaxRuns  == 2      \* runs of the reminder job of one reminder type

\* --------------------------------------------------------------- constants
InvalidTokenCode == 4001

Conns   == 1..NumConns
RoomIds == {"R1", "R2"}
UserIds == {"u1", "u2"}
None    == "None"          \* Python's None (an absent dict key, a missing claim)

\* ------------------------------------------------------------------ tokens
\* A bearer credential: valid = signature and expiry check out (jwt.decode does
\* not raise JWTError); sub, role = the payload's claims (None when absent).
\* The login endpoints issue sub = the user's id and role = the user's role.
IssuedTokens ==
    { [valid |-> TRUE,  sub |-> "u1", role |-> "doctor"],
      [valid |-> TRUE,  sub |-> "u2", role |-> "patient"] }

\* Expired or garbage, no identity claim, an empty identity claim.
BadTokens ==
    { [valid |-> FALSE, sub |-> "u1", role |-> "doctor"],
      [valid |-> TRUE,  sub |-> None, role |-> "patient"],
      [valid |-> TRUE,  sub |-> "",   role |-> "patient"] }

Tokens == IssuedTokens \cup BadTokens

\* Optional[TokenData]: some = FALSE is None.
NoTokenData == [some |-> FALSE, user_id |-> None, role |-> None]

\* A decode_token that does not verify the signature and the expiry.
decode_token_unverified(token) ==
    IF token.sub = None THEN NoTokenData
    ELSE [some |-> TRUE, user_id |-> token.sub, role |-> token.role]

decode_token(token) ==
    IF ~token.valid THEN NoTokenData
    ELSE IF token.sub = None THEN NoTokenData
    ELSE [some |-> TRUE, user_id |-> token.sub, role |-> token.role]

\* `not token_data or not token_data.user_id`
TokenRejected(token_data) ==
    ~token_data.some \/ token_data.user_id = None \/ token_data.user_id = ""

\* UserRole, models.py 17-19.
UserRoles == {"doctor", "patient"}

\* A handler that stores the role claim as it is, absent or not.
RoleOf_as_is(token_data) == token_data.role

\* `token_data.role.value if token_data.role else "unknown"`
RoleOf(token_data) ==
    IF token_data.role # None THEN token_data.role ELSE "unknown"

\* ---------------------------------------------------------------- messages
P2PTypes    == {"offer", "answer", "ice-candidate"}
RoomTypes   == {"recording-started", "recording-stopped", "chat"}
OthersTypes == {"consent-requested", "consent-response"}
KnownTypes  == P2PTypes \cup RoomTypes \cup OthersTypes \cup {"ping"}

\* The JSON objects a client can send: type (None = no "type" key), target_id
\* (None = no "target_id" key), the kind's own field (offer, answer,
\* candidate, message, granted), here body, and from_id: a sender identity the
\* client writes into the message itself (None = no such key).
Bodies == {"b1"}
Inbound ==
    [type : P2PTypes, target_id : UserIds \cup {None}, body : Bodies,
     from_id : {None, "u1"}]
    \cup [type : (KnownTypes \ P2PTypes) \cup {"bogus", None},
          target_id : {None}, body : Bodies, from_id : {None, "u1"}]

NoMsg == [type |-> "none"]

\* A user-joined message that counts the room before the joiner is added.
UserJoinedMsg_count_before(user_id, user_role, n) ==
    [type |-> "user-joined", user_id |-> user_id, user_role |-> user_role,
     participants |-> n - 1]

UserJoinedMsg(user_id, user_role, n) ==
    [type |-> "user-joined", user_id |-> user_id, user_role |-> user_role,
     participants |-> n]

\* A room-info that carries the room's id as your_id.
RoomInfoMsg_your_id_room(room_id, participants, user_id) ==
    [type |-> "room-info", room_id |-> room_id, participants |-> participants,
     your_id |-> room_id]

RoomInfoMsg(room_id, participants, user_id) ==
    [type |-> "room-info", room_id |-> room_id, participants |-> participants,
     your_id |-> user_id]

UserLeftMsg(info) ==
    [type |-> "user-left", user_id |-> info.user_id, user_role |-> info.user_role]

PongMsg == [type |-> "pong"]

\* The dict literals of the if/elif chain of the receive loop: the event built
\* for an inbound message of a known kind, by the sender's user_id and role.
RelayTable(data, user_id, user_role) ==
    CASE data.type = "offer" ->
           [type |-> "offer", offer |-> data.body, from_id |-> user_id,
            from_role |-> user_role]
      [] data.type = "answer" ->
           [type |-> "answer", answer |-> data.body, from_id |-> user_id]
      [] data.type = "ice-candidate" ->
           [type |-> "ice-candidate", candidate |-> data.body, from_id |-> user_id]
      [] data.type = "recording-started" ->
           [type |-> "recording-started", started_by |-> user_id]
      [] data.type = "recording-stopped" ->
           [type |-> "recording-stopped", stopped_by |-> user_id]
      [] data.type = "consent-requested" ->
           [type |-> "consent-requested", requested_by |-> user_id]
      [] data.type = "consent-response" ->
           [type |-> "consent-response", granted |-> data.body, from_id |-> user_id]
      [] data.type = "chat" ->
           [type |-> "chat", message |-> data.body, from_id |-> user_id,
            from_role |-> user_role]
      [] OTHER -> NoMsg

\* A receive loop that takes the sender from the message when it names one.
RelayMsg_trusts_from_id(data, user_id, user_role) ==
    RelayTable(data, IF data.from_id # None THEN data.from_id ELSE user_id, user_role)

\* The event of handler (user_id, user_role) for the inbound message data:
\* user_id and user_role are the handler's locals of lines 108-109.
RelayMsg(data, user_id, user_role) == RelayTable(data, user_id, user_role)

\* The if/elif chain of the receive loop: where the event of a message goes.
\*   "user"   manager.send_to_user(room_id, target_id, ...)
\*   "room"   manager.broadcast_to_room(room_id, ...)
\*   "others" manager.broadcast_to_room(room_id, ..., exclude=websocket)
\*   "self"   websocket.send_json({"type": "pong"})
\*   "ignore" no branch matches
RouteTable(message_type) ==
    CASE message_type \in {"offer", "answer", "ice-candidate"} -> "user"
      [] message_type \in {"recording-started", "recording-stopped"} -> "room"
      [] message_type \in {"consent-requested", "consent-response"} -> "others"
      [] message_type = "chat" -> "room"
      [] message_type = "ping" -> "self"
      [] OTHER -> "ignore"

\* An answer branch that calls broadcast_to_room.
Route_answer_to_room(message_type) ==
    IF message_type = "answer" THEN "room" ELSE RouteTable(message_type)

\* A chat branch that passes exclude=websocket.
Route_chat_to_others(message_type) ==
    IF message_type = "chat" THEN "others" ELSE RouteTable(message_type)

\* A consent-response branch without exclude=websocket.
Route_consent_response_to_room(message_type) ==
    IF message_type = "consent-response" THEN "room" ELSE RouteTable(message_type)

\* A ping branch that is missing.
Route_ping_ignored(message_type) ==
    IF message_type = "ping" THEN "ignore" ELSE RouteTable(message_type)

\* A dispatch whose final branch relays a message of an unrecognised kind to
\* the room.
Route_unknown_to_room(message_type) ==
    IF message_type \notin KnownTypes THEN "room" ELSE RouteTable(message_type)

Route(message_type) == RouteTable(message_type)

\* ------------------------------------------------------------------- state
VARIABLES
    rooms,        \* ConnectionManager.rooms: room_id -> set of connections
    connections,  \* ConnectionManager.connections: connection -> info dict
    pc,           \* each handler's position in websocket_signaling
    local,        \* each handler's room_id, user_id, user_role
    bc,           \* each handler's broadcast_to_room in progress
    nmsg,         \* inbound messages each handler has read
    transport,    \* each connection's socket: new, open, dropped, closed
    closeSent,    \* the close frame the handler sent (websocket.close)
    sent,         \* per connection, the send_json calls made on it
    awaiting,     \* per handler, the connection whose send_json it is suspended in
    appointments, \* appointment table: appointment id -> status
    consents,     \* consent table: appointment id -> status of its row, or None
    interviews,   \* interview table: appointment id -> its row, or NoInterview
    notifications,\* notification table: appointment id -> rows of the reminder type
    emails,       \* reminder emails sent, per appointment
    response,     \* what the last API call returned
    req,          \* the recording call in progress, past its consent check
    lastrun,      \* how the last reminder run ended
    nruns         \* reminder runs made

apiVars == <<appointments, consents, interviews, notifications, emails, response,
             req, lastrun, nruns>>

sigVars == <<rooms, connections, pc, local, bc, nmsg, transport, closeSent, sent>>

vars == <<rooms, connections, pc, local, bc, nmsg, transport, closeSent, sent,
          awaiting, appointments, consents, interviews, notifications, emails,
          response, req, lastrun, nruns>>

\* The appointments of the API model: both between doctor u1 and patient u2.
Appts == {"a1", "a2"}

\* No API call made yet, none in progress, no reminder run made yet.
NoResponse == [op |-> None, appt |-> None, status_code |-> 0]
NoReq == [op |-> None, appt |-> None, consent |-> None]
NoRun == [raised |-> FALSE, count |-> 0]

\* No interview row for the appointment.
NoInterview == [started_at |-> None, ended_at |-> None, recording_path |-> None]

\* disconnect's None, and a handler's locals before they are set.
NoInfo  == [room_id |-> None, user_id |-> None, user_role |-> None]
NoClose == [code |-> 0, reason |-> ""]
NoBroadcast ==
    [conns |-> {}, pend |-> {}, msg |-> NoMsg, excl |-> {}, op |-> 0, cont |-> "recv"]

Info(room_id, user_id, user_role) ==
    [room_id |-> room_id, user_id |-> user_id, user_role |-> user_role]


\* ------------------------------------------------- ConnectionManager (pure)
\* A connect that replaces the room's set instead of adding to it.
connect_rooms_overwrite(rms, websocket, room_id) ==
    [r \in DOMAIN rms \cup {room_id} |->
        IF r = room_id THEN {websocket} ELSE rms[r]]

\* connect, lines 25-28: the room map after registering websocket.
connect_rooms(rms, websocket, room_id) ==
    [r \in DOMAIN rms \cup {room_id} |->
        IF r = room_id
        THEN (IF r \in DOMAIN rms THEN rms[r] ELSE {}) \cup {websocket}
        ELSE rms[r]]

\* connect, lines 29-33: the identity map after registering websocket.
connect_connections(cns, websocket, room_id, user_id, user_role) ==
    [w \in DOMAIN cns \cup {websocket} |->
        IF w = websocket THEN Info(room_id, user_id, user_role) ELSE cns[w]]

\* disconnect, lines 44-45 and 54-55: the value returned (NoInfo is None).
disconnect_info(cns, websocket) ==
    IF websocket \in DOMAIN cns THEN cns[websocket] ELSE NoInfo

\* A disconnect that leaves the emptied room in the map.
disconnect_rooms_keep_empty(rms, cns, websocket) ==
    IF websocket \notin DOMAIN cns THEN rms
    ELSE LET room_id == cns[websocket].room_id IN
         IF room_id \notin DOMAIN rms THEN rms
         ELSE [rms EXCEPT ![room_id] = @ \ {websocket}]

\* A disconnect that leaves the connection in its room's set.
disconnect_rooms_no_discard(rms, cns, websocket) == rms

\* A disconnect that deletes the room as soon as one connection leaves it.
disconnect_rooms_delete_room(rms, cns, websocket) ==
    IF websocket \notin DOMAIN cns THEN rms
    ELSE [r \in DOMAIN rms \ {cns[websocket].room_id} |-> rms[r]]

\* disconnect, lines 46-51: the room map after the call.
disconnect_rooms(rms, cns, websocket) ==
    IF websocket \notin DOMAIN cns THEN rms
    ELSE LET room_id == cns[websocket].room_id IN
         IF room_id \notin DOMAIN rms THEN rms
         ELSE IF rms[room_id] \ {websocket} = {}
              THEN [r \in DOMAIN rms \ {room_id} |-> rms[r]]
              ELSE [rms EXCEPT ![room_id] = @ \ {websocket}]

\* A disconnect that leaves the info dict in the identity map.
disconnect_connections_keep(cns, websocket) == cns

\* disconnect, line 53: the identity map after the call.
disconnect_connections(cns, websocket) ==
    [w \in DOMAIN cns \ {websocket} |-> cns[w]]

\* broadcast_to_room, lines 58-60: the copy of the room's set that is iterated
\* (empty when the room does not exist: the loop is not entered).
room_snapshot(rms, room_id) ==
    IF room_id \in DOMAIN rms THEN rms[room_id] ELSE {}

\* A broadcast loop without the `if connection != exclude` test.
broadcast_recipients_no_exclude(conns, exclude) == conns

\* broadcast_to_room, lines 61-62: the connections of the copy that are sent to.
broadcast_recipients(conns, exclude) == conns \ exclude

\* A send_to_user that looks the user up in every room.
send_to_user_matches_any_room(rms, cns, room_id, target_user_id) ==
    { w \in DOMAIN cns : cns[w].user_id = target_user_id }

\* send_to_user, lines 69-74: the connections the loop can stop at. A set is
\* iterated in no specified order, so the first match is any match.
send_to_user_matches(rms, cns, room_id, target_user_id) ==
    { w \in room_snapshot(rms, room_id) :
        w \in DOMAIN cns /\ cns[w].user_id = target_user_id }

\* A send_to_user without the break: every match is sent to.
send_to_user_sends_no_break(rms, cns, room_id, target_user_id) ==
    {send_to_user_matches(rms, cns, room_id, target_user_id)}

\* send_to_user, lines 72-79: the sets of connections one call can send to: the
\* loop breaks after the first match, whether or not the send to it failed.
send_to_user_sends(rms, cns, room_id, target_user_id) ==
    LET matches == send_to_user_matches(rms, cns, room_id, target_user_id)
    IN  IF matches = {} THEN {{}} ELSE { {w} : w \in matches }

\* A broadcast whose failed send propagates to the caller.
broadcast_after_send_raise(ok, rest, cont) ==
    IF ~ok THEN "raised_exception" ELSE IF rest = {} THEN cont ELSE "bcast"

\* A broadcast whose try/except is around the loop: the first failed send ends it.
broadcast_after_send_stop_on_failure(ok, rest, cont) ==
    IF ~ok \/ rest = {} THEN cont ELSE "bcast"

\* broadcast_to_room, lines 61-66: where the handler is after a send of the
\* loop, given whether the socket took it (ok), the connections still to be
\* sent to (rest) and where the caller goes on (cont). `except Exception:
\* pass`: a failed send changes nothing.
broadcast_after_send(ok, rest, cont) ==
    IF rest = {} THEN cont ELSE "bcast"

\* A get_room_participants that lists every registered connection.
get_room_participants_all_rooms(rms, cns, room_id) ==
    [i \in { cns[w] : w \in DOMAIN cns } |->
        Cardinality({ w \in DOMAIN cns : cns[w] = i })]

\* get_room_participants, lines 81-89: the list of info dicts, as a bag (the
\* order of a set's iteration is not specified): info -> number of entries.
get_room_participants(rms, cns, room_id) ==
    LET members == { w \in room_snapshot(rms, room_id) : w \in DOMAIN cns }
    IN  [i \in { cns[w] : w \in members } |->
            Cardinality({ w \in members : cns[w] = i })]

Len_participants(bag) ==
    LET RECURSIVE Sum(_)
        Sum(S) == IF S = {} THEN 0
                  ELSE LET i == CHOOSE j \in S : TRUE IN bag[i] + Sum(S \ {i})
    IN  Sum(DOMAIN bag)

\* ------------------------------------------------------------------- sends
\* connection.send_json(message): the call is recorded on the connection it is
\* made on, with the handler and the operation that made it (src, op) and
\* whether the socket took it (ok). A send on a socket that is no longer open
\* fails.
SendEntry(message, src, op, target) ==
    [msg |-> message, src |-> src, op |-> op, ok |-> transport[target] = "open"]

Attempt(log, target, message, src, op) ==
    [log EXCEPT ![target] = @ \cup {SendEntry(message, src, op, target)}]

\* What a failed send on the handler's own socket can do to the handler,
\* depending on the server underneath: return as if sent, raise
\* WebSocketDisconnect, or raise another exception.
SelfSendOutcomes(websocket) ==
    IF transport[websocket] = "open" THEN {"ok"}
    ELSE {"ok", "WebSocketDisconnect", "Exception"}

TotalMsgs ==
    LET RECURSIVE Sum(_)
        Sum(n) == IF n = 0 THEN 0 ELSE nmsg[n] + Sum(n - 1)
    IN  Sum(NumConns)

NumDropped == Cardinality({ c \in Conns : transport[c] = "dropped" })

\* -------------------------------------------------------------------- Init
Init ==
    /\ rooms = << >>
    /\ connections = << >>
    /\ pc = [c \in Conns |-> "new"]
    /\ local = [c \in Conns |-> NoInfo]
    /\ bc = [c \in Conns |-> NoBroadcast]
    /\ nmsg = [c \in Conns |-> 0]
    /\ transport = [c \in Conns |-> "new"]
    /\ closeSent = [c \in Conns |-> NoClose]
    /\ sent = [c \in Conns |-> {}]
    /\ awaiting = [c \in Conns |-> 0]
    /\ appointments = [a \in Appts |-> "pending"]
    /\ consents = [a \in Appts |-> None]
    /\ interviews = [a \in Appts |-> NoInterview]
    /\ notifications = [a \in Appts |-> 0]
    /\ emails = [a \in Appts |-> 0]
    /\ response = NoResponse
    /\ req = NoReq
    /\ lastrun = NoRun
    /\ nruns = 0

\* ----------------------------------------------------------------- actions
\* manager.broadcast_to_room(room_id, message, exclude) called by handler c as
\* its operation op, on the registry rms: the copy is taken and the first
\* send is made; cont is where the handler is once the loop is over. With
\* nobody to send to the call does not suspend and the handler is at cont.
StartBroadcast(c, rms, room_id, message, exclude, op, cont) ==
    LET conns == room_snapshot(rms, room_id)
        rcpt  == broadcast_recipients(conns, exclude)
    IN  IF rcpt = {}
        THEN /\ sent' = sent
             /\ bc' = [bc EXCEPT ![c] = [conns |-> conns, pend |-> {}, msg |-> message,
                                         excl |-> exclude, op |-> op, cont |-> cont]]
             /\ pc' = [pc EXCEPT ![c] = cont]
        ELSE \E t \in rcpt :
             /\ sent' = Attempt(sent, t, message, c, op)
             /\ bc' = [bc EXCEPT ![c] = [conns |-> conns, pend |-> rcpt \ {t},
                                         msg |-> message, excl |-> exclude,
                                         op |-> op, cont |-> cont]]
             /\ pc' = [pc EXCEPT ![c] =
                        broadcast_after_send(transport[t] = "open", rcpt \ {t}, cont)]

\* websocket_signaling, lines 102-121, for the next connection c to arrive on
\* room_id with token: the credential check, then manager.connect (accept,
\* registration, the user-joined broadcast to the others) and, when there is
\* nobody to notify, room-info straight away.
Join(c, room_id, token) ==
    /\ pc[c] = "new"
    /\ IF c = 1 THEN TRUE ELSE pc[c - 1] # "new"
    /\ UNCHANGED <<awaiting, apiVars>>
    /\ LET token_data == decode_token(token) IN
       IF TokenRejected(token_data)
       THEN /\ closeSent' = [closeSent EXCEPT ![c] =
                               [code |-> InvalidTokenCode, reason |-> "Invalid token"]]
            /\ transport' = [transport EXCEPT ![c] = "closed"]
            /\ pc' = [pc EXCEPT ![c] = "rejected"]
            /\ UNCHANGED <<rooms, connections, local, bc, nmsg, sent>>
       ELSE LET user_id   == token_data.user_id
                user_role == RoleOf(token_data)
                rms       == connect_rooms(rooms, c, room_id)
                cns       == connect_connections(connections, c, room_id, user_id, user_role)
                joined    == UserJoinedMsg(user_id, user_role, Cardinality(rms[room_id]))
            IN  /\ rooms' = rms
                /\ connections' = cns
                /\ local' = [local EXCEPT ![c] = Info(room_id, user_id, user_role)]
                /\ transport' = [transport EXCEPT ![c] = "open"]
                /\ UNCHANGED <<nmsg, closeSent>>
                /\ IF broadcast_recipients(room_snapshot(rms, room_id), {c}) = {}
                   THEN /\ sent' = [sent EXCEPT ![c] = @ \cup
                                {[msg |-> RoomInfoMsg(room_id,
                                            get_room_participants(rms, cns, room_id), user_id),
                                  src |-> c, op |-> 0, ok |-> TRUE]}]
                        /\ pc' = [pc EXCEPT ![c] = "recv"]
                        /\ bc' = [bc EXCEPT ![c] =
                                    [conns |-> room_snapshot(rms, room_id), pend |-> {},
                                     msg |-> joined, excl |-> {c}, op |-> 0,
                                     cont |-> "roominfo"]]
                   ELSE StartBroadcast(c, rms, room_id, joined, {c}, 0, "roominfo")

\* broadcast_to_room, lines 61-66, for handler c: the send to the next
\* connection of the copy returned or failed (the failure is swallowed), and the
\* next send is made.
BroadcastStep(c) ==
    /\ pc[c] = "bcast"
    /\ \E t \in bc[c].pend :
        /\ sent' = Attempt(sent, t, bc[c].msg, c, bc[c].op)
        /\ bc' = [bc EXCEPT ![c].pend = @ \ {t}]
        /\ pc' = [pc EXCEPT ![c] =
                   broadcast_after_send(transport[t] = "open", bc[c].pend \ {t}, bc[c].cont)]
    /\ UNCHANGED <<rooms, connections, local, nmsg, transport, closeSent>>
    /\ UNCHANGED <<awaiting, apiVars>>

\* websocket_signaling, lines 114-121, for handler c back from manager.connect:
\* the participants are read and room-info is sent to c. The send is outside
\* the try: when it raises, the handler ends there.
RoomInfo(c) ==
    /\ pc[c] = "roominfo"
    /\ sent' = Attempt(sent, c,
                 RoomInfoMsg(local[c].room_id,
                     get_room_participants(rooms, connections, local[c].room_id),
                     local[c].user_id), c, 0)
    /\ \E outcome \in SelfSendOutcomes(c) :
         pc' = [pc EXCEPT ![c] = IF outcome = "ok" THEN "recv" ELSE "crashed"]
    /\ UNCHANGED <<rooms, connections, local, bc, nmsg, transport, closeSent>>
    /\ UNCHANGED <<awaiting, apiVars>>

\* websocket_signaling, lines 124-195, for handler c: receive_json returns data
\* and the if/elif chain runs up to its first send.
Receive(c, data) ==
    /\ pc[c] = "recv"
    /\ TotalMsgs < MaxMsgs
    /\ nmsg' = [nmsg EXCEPT ![c] = @ + 1]
    /\ UNCHANGED <<rooms, connections, local, transport, closeSent>>
    /\ UNCHANGED <<awaiting, apiVars>>
    /\ LET room_id == local[c].room_id
           op      == nmsg[c] + 1
           event   == RelayMsg(data, local[c].user_id, local[c].user_role)
           route   == Route(data.type)
       IN  CASE route = "user" ->
                  /\ \E T \in send_to_user_sends(rooms, connections, room_id,
                                                  data.target_id) :
                        sent' = [t \in Conns |->
                                   IF t \in T
                                   THEN sent[t] \cup {SendEntry(event, c, op, t)}
                                   ELSE sent[t]]
                  /\ UNCHANGED <<pc, bc>>
             [] route = "room" ->
                  StartBroadcast(c, rooms, room_id, event, {}, op, "recv")
             [] route = "others" ->
                  StartBroadcast(c, rooms, room_id, event, {c}, op, "recv")
             [] route = "self" ->
                  /\ sent' = Attempt(sent, c, PongMsg, c, op)
                  /\ \E outcome \in SelfSendOutcomes(c) :
                       pc' = [pc EXCEPT ![c] =
                                CASE outcome = "ok" -> "recv"
                                  [] outcome = "WebSocketDisconnect" -> "raised_disconnect"
                                  [] OTHER -> "raised_exception"]
                  /\ UNCHANGED bc
             [] OTHER -> UNCHANGED <<sent, pc, bc>>

\* websocket_signaling, lines 197-204, for handler c: receive_json (or the pong
\* send) raised WebSocketDisconnect; disconnect, then user-left to the room.
OnDisconnect(c) ==
    /\ \/ pc[c] = "recv" /\ transport[c] = "dropped"
       \/ pc[c] = "raised_disconnect"
    /\ LET info == disconnect_info(connections, c) IN
       /\ rooms' = disconnect_rooms(rooms, connections, c)
       /\ connections' = disconnect_connections(connections, c)
       /\ IF info # NoInfo
          THEN StartBroadcast(c, disconnect_rooms(rooms, connections, c), local[c].room_id, UserLeftMsg(info), {},
                              nmsg[c] + 1, "left")
          ELSE /\ pc' = [pc EXCEPT ![c] = "left"]
               /\ UNCHANGED <<sent, bc>>
    /\ UNCHANGED <<local, nmsg, transport, closeSent>>
    /\ UNCHANGED <<awaiting, apiVars>>

\* websocket_signaling, lines 205-207, for handler c: receive_json raised
\* something else (a frame that is not a JSON object), or the pong send did;
\* disconnect, and the handler returns: the server closes the socket.
OnException(c) ==
    /\ \/ pc[c] = "recv" /\ TotalMsgs < MaxMsgs
       \/ pc[c] = "raised_exception"
    /\ nmsg' = [nmsg EXCEPT ![c] = IF pc[c] = "recv" THEN @ + 1 ELSE @]
    /\ rooms' = disconnect_rooms(rooms, connections, c)
    /\ connections' = disconnect_connections(connections, c)
    /\ pc' = [pc EXCEPT ![c] = "errored"]
    /\ transport' = [transport EXCEPT ![c] = IF @ = "open" THEN "closed" ELSE @]
    /\ UNCHANGED <<local, bc, closeSent, sent>>
    /\ UNCHANGED <<awaiting, apiVars>>

\* The client of c goes away (close, or the network drops) while its handler runs.
Drop(c) ==
    /\ transport[c] = "open"
    /\ NumDropped < MaxDrops
    /\ pc[c] \in {"bcast", "roominfo", "recv"}
    /\ transport' = [transport EXCEPT ![c] = "dropped"]
    /\ UNCHANGED <<rooms, connections, pc, local, bc, nmsg, closeSent, sent>>
    /\ UNCHANGED <<awaiting, apiVars>>

Next ==
    \/ \E c \in Conns, room_id \in RoomIds, token \in Tokens : Join(c, room_id, token)
    \/ \E c \in Conns : BroadcastStep(c)
    \/ \E c \in Conns : RoomInfo(c)
    \/ \E c \in Conns, data \in Inbound : Receive(c, data)
    \/ \E c \in Conns : OnDisconnect(c)
    \/ \E c \in Conns : OnException(c)
    \/ \E c \in Conns : Drop(c)

Spec == Init /\ [][Next]_vars

\* ------------------------------------------- credentials without a role claim
\* A token that jwt.decode accepts and that carries sub but no role claim
\* (decode_token, line 46: role = None), next to an issued one and a bad one.
NoRoleToken == [valid |-> TRUE, sub |-> "u2", role |-> None]

RoleTokens ==
    { [valid |-> TRUE,  sub |-> "u1", role |-> "doctor"],
      NoRoleToken,
      [valid |-> FALSE, sub |-> "u1", role |-> "doctor"] }

NextRoles ==
    \/ \E c \in Conns, room_id \in RoomIds, token \in RoleTokens : Join(c, room_id, token)
    \/ \E c \in Conns : BroadcastStep(c)
    \/ \E c \in Conns : RoomInfo(c)
    \/ \E c \in Conns, data \in Inbound : Receive(c, data)
    \/ \E c \in Conns : OnDisconnect(c)
    \/ \E c \in Conns : OnException(c)
    \/ \E c \in Conns : Drop(c)

SpecRoles == Init /\ [][NextRoles]_vars

\* ------------------------------------------------------ sends that do not return
\* broadcast_to_room, line 64, for handler c: `await connection.send_json` on
\* the next connection t of the copy does not return, because the peer of t is
\* open and does not read. The handler is suspended inside the loop, before
\* the sends to the connections that come after t.
SendStall(c) ==
    /\ pc[c] = "bcast"
    /\ \E t \in bc[c].pend :
        /\ transport[t] = "open"
        /\ awaiting' = [awaiting EXCEPT ![c] = t]
    /\ pc' = [pc EXCEPT ![c] = "blocked"]
    /\ UNCHANGED <<rooms, connections, local, bc, nmsg, transport, closeSent, sent>>
    /\ UNCHANGED apiVars

\* broadcast_to_room, lines 63-66, for handler c suspended in the send to t:
\* the peer reads at last, or went away and the send raises (swallowed); the
\* loop goes on with the next connection.
SendReturn(c) ==
    /\ pc[c] = "blocked"
    /\ LET t == awaiting[c] IN
        /\ sent' = Attempt(sent, t, bc[c].msg, c, bc[c].op)
        /\ bc' = [bc EXCEPT ![c].pend = @ \ {t}]
        /\ pc' = [pc EXCEPT ![c] =
                   broadcast_after_send(transport[t] = "open", bc[c].pend \ {t}, bc[c].cont)]
    /\ awaiting' = [awaiting EXCEPT ![c] = 0]
    /\ UNCHANGED <<rooms, connections, local, nmsg, transport, closeSent>>
    /\ UNCHANGED apiVars

NextStall ==
    \/ Next
    \/ \E c \in Conns : SendStall(c)
    \/ \E c \in Conns : SendReturn(c)

SpecStall == Init /\ [][NextStall]_vars

\* ------------------------------------------------------- appointments (REST)
\* AppointmentStatus, models.py 22-26, and ConsentStatus, 29-32.
AppointmentStatuses == {"pending", "confirmed", "cancelled", "completed"}

ConsentStatuses == {"pending", "granted", "denied"}

\* The authenticated callers: the doctor and the patient of the appointments,
\* and a patient who is in neither.
ApiUsers ==
    { [id |-> "u1", role |-> "doctor"],
      [id |-> "u2", role |-> "patient"],
      [id |-> "u3", role |-> "patient"] }

doctor_id == "u1"

patient_id == "u2"

Response(op, a, code) == [op |-> op, appt |-> a, status_code |-> code]

\* update_appointment, lines 168-188: the status code of the checks, for a
\* caller and the status of update_data (None when the update has none).
update_appointment_code(current_user, new_status) ==
    IF current_user.id \notin {doctor_id, patient_id} THEN 403
    ELSE IF new_status \in {"confirmed", "completed"} /\ current_user.role # "doctor"
         THEN 403
         ELSE 200

\* update_appointment, lines 146-201, on appointment a (which exists).
UpdateAppointment(current_user, a, new_status) ==
    LET code == update_appointment_code(current_user, new_status) IN
    /\ response' = Response("update_appointment", a, code)
    /\ appointments' =
         IF code = 200 /\ new_status # None
         THEN [appointments EXCEPT ![a] = new_status]
         ELSE appointments
    /\ UNCHANGED <<consents, interviews, notifications, emails, req, lastrun, nruns>>
    /\ UNCHANGED <<sigVars, awaiting>>

\* ------------------------------------------------------------------ reminders
\* The orders in which a select without ORDER BY can return the rows S.
Orders(S) ==
    { f \in [1..Cardinality(S) -> S] : \A i, j \in DOMAIN f : f[i] = f[j] => i = j }

\* send_upcoming_reminders, lines 157-214, over the appointments the select
\* returned, in that order; notifs is the notification table as the session
\* sees it (rows of reminder_type per appointment) and committed the table as
\* it was at the start of the run. scalar_one_or_none returns None for no
\* row, the row for one, and raises MultipleResultsFound for two or more: the
\* run ends there, nothing of it is committed, and the emails are out.
RECURSIVE reminder_loop(_, _, _, _, _)
reminder_loop(order, notifs, mails, count, committed) ==
    IF order = << >>
    THEN [raised |-> FALSE, count |-> count, notifications |-> notifs, emails |-> mails]
    ELSE LET a == Head(order) IN
         IF notifs[a] >= 2
         THEN [raised |-> TRUE, count |-> 0, notifications |-> committed, emails |-> mails]
         ELSE IF notifs[a] = 1
         THEN reminder_loop(Tail(order), notifs, mails, count, committed)
         ELSE reminder_loop(Tail(order),
                            [notifs EXCEPT ![a] = @ + 2],
                            [mails EXCEPT ![a] = @ + 2],
                            count + 1, committed)

\* The appointments of the select of lines 149-153. Every appointment of the
\* model is scheduled inside the window of every run.
in_window(appts) == { a \in Appts : appts[a] = "confirmed" }

\* One run of a reminder job of the scheduler (scheduler.py 69-81) for one
\* reminder type; an exception of the run is caught and printed there.
ReminderRun(order) ==
    /\ nruns < MaxRuns
    /\ order \in Orders(in_window(appointments))
    /\ LET run == reminder_loop(order, notifications, emails, 0, notifications) IN
        /\ notifications' = run.notifications
        /\ emails' = run.emails
        /\ lastrun' = [raised |-> run.raised, count |-> run.count]
    /\ nruns' = nruns + 1
    /\ UNCHANGED <<appointments, consents, interviews, response, req>>
    /\ UNCHANGED <<sigVars, awaiting>>

NextScheduling ==
    \/ \E current_user \in ApiUsers, a \in Appts,
          new_status \in AppointmentStatuses \cup {None} :
            UpdateAppointment(current_user, a, new_status)
    \/ \E order \in Orders(in_window(appointments)) : ReminderRun(order)

SpecScheduling == Init /\ [][NextScheduling]_vars

\* -------------------------------------------------------- consent, recording
\* create_consent_request, consent.py 17-81, on appointment a.
CreateConsentRequest(current_user, a) ==
    /\ LET code == IF current_user.role # "patient" THEN 403
                   ELSE IF current_user.id # patient_id THEN 403
                   ELSE IF consents[a] # None THEN 400
                   ELSE 201
       IN  /\ response' = Response("create_consent_request", a, code)
           /\ consents' = IF code = 201 THEN [consents EXCEPT ![a] = "pending"]
                          ELSE consents
    /\ UNCHANGED <<appointments, interviews, notifications, emails, req, lastrun, nruns>>
    /\ UNCHANGED <<sigVars, awaiting>>

\* update_consent, consent.py 132-193, on the consent of appointment a.
UpdateConsent(current_user, a, new_status) ==
    /\ LET code == IF current_user.role # "patient" THEN 403
                   ELSE IF consents[a] = None THEN 404
                   ELSE IF patient_id # current_user.id THEN 403
                   ELSE 200
       IN  /\ response' = Response("update_consent", a, code)
           /\ consents' = IF code = 200 THEN [consents EXCEPT ![a] = new_status]
                          ELSE consents
    /\ UNCHANGED <<appointments, interviews, notifications, emails, req, lastrun, nruns>>
    /\ UNCHANGED <<sigVars, awaiting>>

\* An interview row as create_interview and start_recording make it.
NewInterview == [started_at |-> "set", ended_at |-> None, recording_path |-> None]

\* create_interview, interviews.py 31-84, on appointment a.
CreateInterview(current_user, a) ==
    /\ LET code == IF current_user.id \notin {doctor_id, patient_id} THEN 403
                   ELSE IF interviews[a] # NoInterview THEN 400
                   ELSE 201
       IN  /\ response' = Response("create_interview", a, code)
           /\ interviews' = IF code = 201 THEN [interviews EXCEPT ![a] = NewInterview]
                            ELSE interviews
    /\ UNCHANGED <<appointments, consents, notifications, emails, req, lastrun, nruns>>
    /\ UNCHANGED <<sigVars, awaiting>>

\* A recording check that lets a pending consent through.
consent_refused_denied_only(consent) == consent = None \/ consent = "denied"

\* The check of start_recording (line 166) and upload_recording (line 248):
\* `not consent or consent.status != ConsentStatus.GRANTED`.
consent_refused(consent) == consent = None \/ consent # "granted"

\* start_recording / upload_recording up to the consent check (lines 161-170,
\* 243-252): the row is read; the call ends with 403, or goes on with the
\* consent it read.
RecordingCall(op, a) ==
    /\ req = NoReq
    /\ IF consent_refused(consents[a])
       THEN /\ response' = Response(op, a, 403)
            /\ req' = req
       ELSE /\ req' = [op |-> op, appt |-> a, consent |-> consents[a]]
            /\ response' = response
    /\ UNCHANGED <<appointments, consents, interviews, notifications, emails, lastrun, nruns>>
    /\ UNCHANGED <<sigVars, awaiting>>

StartRecordingCall(a) == RecordingCall("start_recording", a)

UploadRecordingCall(a) == RecordingCall("upload_recording", a)

\* start_recording, lines 172-196: get or create the interview.
StartRecordingFinish ==
    /\ req.op = "start_recording"
    /\ interviews' = IF interviews[req.appt] = NoInterview
                     THEN [interviews EXCEPT ![req.appt] = NewInterview]
                     ELSE interviews
    /\ response' = Response("start_recording", req.appt, 200)
    /\ req' = NoReq
    /\ UNCHANGED <<appointments, consents, notifications, emails, lastrun, nruns>>
    /\ UNCHANGED <<sigVars, awaiting>>

\* upload_recording, lines 254-309: 404 without an interview; the recording is
\* stored and the interview ended.
UploadRecordingFinish ==
    /\ req.op = "upload_recording"
    /\ IF interviews[req.appt] = NoInterview
       THEN /\ response' = Response("upload_recording", req.appt, 404)
            /\ interviews' = interviews
       ELSE /\ interviews' = [interviews EXCEPT ![req.appt] =
                                [@ EXCEPT !.recording_path = "set", !.ended_at = "set"]]
            /\ response' = Response("upload_recording", req.appt, 200)
    /\ req' = NoReq
    /\ UNCHANGED <<appointments, consents, notifications, emails, lastrun, nruns>>
    /\ UNCHANGED <<sigVars, awaiting>>

\* stop_recording, lines 199-230, on appointment a: no consent check.
StopRecording(a) ==
    /\ IF interviews[a] = NoInterview
       THEN /\ response' = Response("stop_recording", a, 404)
            /\ interviews' = interviews
       ELSE /\ interviews' = [interviews EXCEPT ![a] = [@ EXCEPT !.ended_at = "set"]]
            /\ response' = Response("stop_recording", a, 200)
    /\ UNCHANGED <<appointments, consents, notifications, emails, req, lastrun, nruns>>
    /\ UNCHANGED <<sigVars, awaiting>>

NextRecording ==
    \/ \E current_user \in ApiUsers, a \in Appts : CreateConsentRequest(current_user, a)
    \/ \E current_user \in ApiUsers, a \in Appts, new_status \in ConsentStatuses :
          UpdateConsent(current_user, a, new_status)
    \/ \E current_user \in ApiUsers, a \in Appts : CreateInterview(current_user, a)
    \/ \E a \in Appts : StartRecordingCall(a)
    \/ \E a \in Appts : UploadRecordingCall(a)
    \/ StartRecordingFinish
    \/ UploadRecordingFinish
    \/ \E a \in Appts : StopRecording(a)

SpecRecording == Init /\ [][NextRecording]_vars

\* ================================================================== claims
\* Handler c got through manager.connect on room r.
HasJoined(c, r) ==
    pc[c] \notin {"new", "rejected"} /\ local[c].room_id = r

\* Handler c is past its call of manager.disconnect.
HasLeft(c) ==
    \/ pc[c] \in {"left", "errored"}
    \/ pc[c] = "bcast" /\ bc[c].cont = "left"

\* The send_json calls a step adds on connection t.
NewSends(t) == sent'[t] \ sent[t]

\* C1: under every interleaving of the handlers' joins and leaves, each room's
\* membership is exactly the connections that joined it and have not left: the
\* room map holds no other connection and misses none of them.
C1_MembershipIsJoinedMinusLeft ==
    \A r \in RoomIds :
        room_snapshot(rooms, r) = { c \in Conns : HasJoined(c, r) /\ ~HasLeft(c) }

\* C1 witness: a room one connection joined and left while another joined and
\* stays.
C1_Witness ==
    \E r \in RoomIds : \E a, b \in Conns :
        /\ a # b
        /\ HasJoined(a, r) /\ HasLeft(a)
        /\ HasJoined(b, r) /\ ~HasLeft(b)
        /\ rooms[r] = {b}

\* C2: the registry never holds a room with an empty connection set: once every
\* connection that joined a room has left it, the room's key is gone and
\* get_room_participants gives the empty list.
C2_NoEmptyRoom ==
    /\ \A r \in DOMAIN rooms : rooms[r] # {}
    /\ \A r \in RoomIds :
         (\A c \in Conns : HasJoined(c, r) => HasLeft(c))
            => /\ r \notin DOMAIN rooms
               /\ get_room_participants(rooms, connections, r) = << >>

\* C2 witness: the last connection of a room has left while another room is
\* still in the registry.
C2_Witness ==
    \E r \in RoomIds :
        /\ \E c \in Conns : HasJoined(c, r)
        /\ \A c \in Conns : HasJoined(c, r) => HasLeft(c)
        /\ r \notin DOMAIN rooms
        /\ DOMAIN rooms # {}

\* The send_json call of handler c's current broadcast on connection t, if made.
BroadcastEntries(c, t) ==
    { e \in sent[t] : e.src = c /\ e.op = bc[c].op /\ e.msg = bc[c].msg }

\* Every connection of the copy that the loop of c's broadcast is past has had
\* the send made on it, and the loop is not left before the copy is exhausted.
BroadcastCoversCopy(c) ==
    /\ \A t \in (bc[c].conns \ bc[c].excl) \ bc[c].pend : BroadcastEntries(c, t) # {}
    /\ bc[c].pend # {} => pc[c] = "bcast"

\* C3: a failed send inside broadcast_to_room is swallowed: the send is still
\* made on every other non-excluded connection of the room, the caller goes on
\* as after a broadcast without failure (a relaying handler is back in its
\* receive loop), and the registry is as it was: the connection whose send
\* failed stays registered.
C3_BroadcastSwallowsFailure ==
    /\ [](\A c \in Conns : bc[c].msg # NoMsg => BroadcastCoversCopy(c))
    /\ [][\A c, t \in Conns : \A e \in NewSends(t) :
            (e.src = c /\ ~e.ok /\ e.op = bc'[c].op /\ e.msg = bc'[c].msg)
            => /\ pc'[c] = IF bc'[c].pend = {} THEN bc'[c].cont ELSE "bcast"
               /\ t \in DOMAIN connections
                    => /\ t \in DOMAIN connections'
                       /\ connections'[t] = connections[t]
                       /\ t \in room_snapshot(rooms', connections[t].room_id)
               /\ bc'[c].cont = "recv" => UNCHANGED <<rooms, connections>>]_vars

\* C3 witness: a relayed broadcast is over, its sender is back in the receive
\* loop, the send on one recipient failed, the send on another was taken, and
\* the failing connection is still registered.
C3_Witness ==
    \E c \in Conns : \E t1, t2 \in bc[c].conns \ bc[c].excl :
        /\ pc[c] = "recv" /\ bc[c].cont = "recv" /\ bc[c].pend = {}
        /\ bc[c].msg.type \in RoomTypes \cup OthersTypes
        /\ \E e \in BroadcastEntries(c, t1) : ~e.ok
        /\ \E e \in BroadcastEntries(c, t2) : e.ok
        /\ t1 \in DOMAIN connections /\ t1 \in rooms[local[c].room_id]

\* The connections a step makes a send_json call on.
Recipients == { t \in Conns : NewSends(t) # {} }

\* C4: one call of send_to_user makes at most one send, only on a member of the
\* named room whose recorded user_id is the target; with no such member, or no
\* such room, it sends nothing and raises nothing.
C4_SendToUserOneMemberOfRoom ==
    /\ [](\A r \in RoomIds, u \in UserIds \cup {None} :
            \A T \in send_to_user_sends(rooms, connections, r, u) :
                /\ Cardinality(T) <= 1
                /\ \A t \in T : /\ r \in DOMAIN rooms /\ t \in rooms[r]
                                /\ connections[t].user_id = u
                /\ (\A t \in room_snapshot(rooms, r) : connections[t].user_id # u)
                      => T = {})
    /\ [][\A c \in Conns, data \in Inbound :
            (Route(data.type) = "user" /\ Receive(c, data))
            => /\ Cardinality(Recipients) <= 1
               /\ \A t \in Recipients :
                    /\ Cardinality(NewSends(t)) = 1
                    /\ t \in rooms[local[c].room_id]
                    /\ connections[t].user_id = data.target_id
               /\ (\A t \in rooms[local[c].room_id] :
                        connections[t].user_id # data.target_id) => Recipients = {}
               /\ pc'[c] = "recv"]_vars

\* C4 witness: an offer was sent on the target's connection in the sender's
\* room while the same user has a connection in another room.
C4_Witness ==
    \E t, w \in DOMAIN connections : \E e \in sent[t] :
        /\ e.msg.type = "offer" /\ e.src # t
        /\ connections[w].user_id = connections[t].user_id
        /\ connections[w].room_id # connections[t].room_id
        /\ sent[w] \subseteq { x \in sent[w] : x.msg.type \notin P2PTypes }

\* C5: an offer, answer or ice-candidate event is only ever sent, by the step
\* that reads the message, on a connection whose recorded user_id is the
\* message's target_id; it is never the message of a broadcast.
C5_NegotiationOnlyToTarget ==
    /\ [](\A c \in Conns : bc[c].msg.type \notin P2PTypes)
    /\ [][\A t \in Conns : \A e \in NewSends(t) :
            e.msg.type \in P2PTypes
            => \E data \in Inbound :
                 /\ data.type = e.msg.type
                 /\ Receive(e.src, data)
                 /\ t \in DOMAIN connections
                 /\ connections[t].user_id = data.target_id
                 /\ Recipients = {t}]_vars

\* C5 witness: three connections share a room, one sent an answer, the target
\* got it and the third member got no negotiation event.
C5_Witness ==
    \E a, b, c \in DOMAIN connections : \E e \in sent[b] :
        /\ a # b /\ b # c /\ a # c
        /\ connections[a].room_id = connections[b].room_id
        /\ connections[c].room_id = connections[b].room_id
        /\ e.msg.type = "answer" /\ e.src = a /\ e.ok
        /\ connections[c].user_id # connections[b].user_id
        /\ pc[c] = "recv"
        /\ \A x \in sent[c] : x.msg.type \notin P2PTypes

\* C6: the event of a chat, recording-started or recording-stopped message is
\* broadcast over the whole room as it is when the message is read, the sender
\* included: the send is made on every one of these connections.
C6_RoomEventsReachAll ==
    /\ [](\A c \in Conns : bc[c].msg.type \in RoomTypes
            => /\ BroadcastCoversCopy(c)
               /\ bc[c].excl = {}
               /\ c \in bc[c].conns)
    /\ [][\A c \in Conns, data \in Inbound :
            (data.type \in RoomTypes /\ Receive(c, data))
            => /\ bc'[c].conns = rooms[local[c].room_id]
               /\ bc'[c].msg.type = data.type
               /\ bc'[c].op = nmsg'[c]]_vars

\* C6 witness: a chat broadcast is over in a room of at least two connections
\* and every one of them, the sender too, took the event.
C6_Witness ==
    \E c \in Conns :
        /\ bc[c].msg.type = "chat" /\ bc[c].pend = {} /\ pc[c] = "recv"
        /\ Cardinality(bc[c].conns) >= 2
        /\ \A t \in bc[c].conns : \E e \in BroadcastEntries(c, t) : e.ok

\* C7: the event of a consent-requested or consent-response message is
\* broadcast over the sender's room without the sender: the send is made on
\* every other member and never on the sending connection.
C7_ConsentEventsSkipSender ==
    /\ [](\A c \in Conns : bc[c].msg.type \in OthersTypes
            => /\ BroadcastCoversCopy(c)
               /\ bc[c].excl = {c})
    /\ [](\A c \in Conns : \A e \in sent[c] : e.msg.type \in OthersTypes => e.src # c)
    /\ [][\A c \in Conns, data \in Inbound :
            (data.type \in OthersTypes /\ Receive(c, data))
            => /\ bc'[c].conns = rooms[local[c].room_id]
               /\ bc'[c].msg.type = data.type
               /\ bc'[c].op = nmsg'[c]
               /\ NewSends(c) = {}]_vars

\* C7 witness: a consent-response broadcast is over, another member of the
\* room took the event and the sender's connection has none.
C7_Witness ==
    \E c \in Conns : \E t \in bc[c].conns \ {c} :
        /\ bc[c].msg.type = "consent-response" /\ bc[c].pend = {} /\ pc[c] = "recv"
        /\ \E e \in BroadcastEntries(c, t) : e.ok
        /\ \A e \in sent[c] : e.msg.type \notin OthersTypes

C9_InvalidTokenClosed4001 ==
    /\ [](\A c \in Conns : pc[c] = "rejected"
            => /\ c \notin DOMAIN connections
               /\ \A r \in DOMAIN rooms : c \notin rooms[r]
               /\ sent[c] = {}
               /\ \A t \in Conns : \A e \in sent[t] : e.src # c)
    /\ [][\A c \in Conns, room_id \in RoomIds, token \in BadTokens :
            Join(c, room_id, token)
            => /\ closeSent'[c] = [code |-> 4001, reason |-> "Invalid token"]
               /\ transport'[c] = "closed"
               /\ pc'[c] = "rejected"
               /\ UNCHANGED <<rooms, connections, sent>>]_vars

\* C9 witness: a connection was rejected while a room has a member in its
\* receive loop.
C9_Witness ==
    \E c \in Conns, t \in DOMAIN connections :
        /\ pc[c] = "rejected" /\ closeSent[c].code = 4001
        /\ pc[t] = "recv"

\* C10: a join broadcasts user-joined, with the joiner's user_id and user_role
\* and with participants = the size of the room counting the joiner, over the
\* room as it is right after the registration, without the joiner: the send is
\* made on every other member and never on the joiner.
C10_UserJoinedToOthersWithCount ==
    /\ [](\A c \in Conns : bc[c].msg.type = "user-joined"
            => /\ BroadcastCoversCopy(c)
               /\ bc[c].excl = {c})
    /\ [](\A c \in Conns : \A e \in sent[c] : e.msg.type = "user-joined" => e.src # c)
    /\ [][\A c \in Conns, room_id \in RoomIds, token \in IssuedTokens :
            Join(c, room_id, token)
            => /\ rooms'[room_id] = room_snapshot(rooms, room_id) \cup {c}
               /\ bc'[c].conns = rooms'[room_id]
               /\ bc'[c].op = 0
               /\ bc'[c].msg = [type |-> "user-joined", user_id |-> token.sub,
                                user_role |-> token.role,
                                participants |-> Cardinality(rooms'[room_id])]]_vars

\* C10 witness: the second connection of a room joined and the first took a
\* user-joined with participants = 2.
C10_Witness ==
    \E c \in Conns : \E t \in bc[c].conns \ {c} : \E e \in sent[t] :
        /\ e.src = c /\ e.ok
        /\ e.msg.type = "user-joined" /\ e.msg.participants = 2
        /\ Cardinality(bc[c].conns) = 2

\* C11: when the WebSocketDisconnect of a joined connection is processed, the
\* connection is taken out of the registry first, so that the participant list
\* of its room loses exactly its entry, and user-left with its user_id and
\* user_role is then sent on every connection that remains in the room and
\* never on the leaver.
C11_UserLeftToRemaining ==
    /\ [](\A c \in Conns : bc[c].msg.type = "user-left"
            => /\ BroadcastCoversCopy(c)
               /\ bc[c].excl = {}
               /\ c \notin bc[c].conns
               /\ bc[c].msg = [type |-> "user-left", user_id |-> local[c].user_id,
                               user_role |-> local[c].user_role])
    /\ [](\A c \in Conns : \A e \in sent[c] : e.msg.type = "user-left" => e.src # c)
    /\ [][\A c \in Conns :
            OnDisconnect(c)
            => LET r      == local[c].room_id
                   before == get_room_participants(rooms, connections, r)
                   after  == get_room_participants(rooms', connections', r)
               IN  /\ c \in room_snapshot(rooms, r)
                   /\ c \notin room_snapshot(rooms', r)
                   /\ c \notin DOMAIN connections'
                   /\ bc'[c].msg.type = "user-left"
                   /\ bc'[c].conns = room_snapshot(rooms, r) \ {c}
                   /\ after = [i \in { j \in DOMAIN before :
                                         j # local[c] \/ before[j] > 1 } |->
                                 IF i = local[c] THEN before[i] - 1 ELSE before[i]]]_vars

\* C11 witness: a leaver's user-left broadcast is over, a connection that stays
\* in the room took it, and the room's participant list has no entry of the
\* leaver.
C11_Witness ==
    \E c \in Conns : \E t \in bc[c].conns :
        /\ pc[c] = "left" /\ bc[c].msg.type = "user-left"
        /\ \E e \in BroadcastEntries(c, t) : e.ok
        /\ t \in room_snapshot(rooms, local[c].room_id)
        /\ local[c] \notin DOMAIN get_room_participants(rooms, connections,
                                                        local[c].room_id)

\* C12: no leave notification is missed: whenever the session of a connection
\* that joined a room ends, by WebSocketDisconnect (close or network drop) or
\* by any other exception of the receive loop, a user-left broadcast for it is
\* made over the members that remain in its room, and that broadcast makes the
\* send on each of them.
C12_NoLeaveNotificationMissed ==
    /\ [](\A c \in Conns : bc[c].msg.type = "user-left" => BroadcastCoversCopy(c))
    /\ [][\A c \in Conns :
            LET remaining == room_snapshot(rooms, local[c].room_id) \ {c}
            IN  ((OnDisconnect(c) \/ OnException(c)) /\ remaining # {})
                => /\ bc'[c].msg = [type |-> "user-left",
                                    user_id |-> local[c].user_id,
                                    user_role |-> local[c].user_role]
                   /\ bc'[c].conns = remaining
                   /\ bc'[c].excl = {}]_vars

\* C13: once the handler of a connection has terminated, the connection is in
\* no room's set and not in the identity map, whichever way the handler ended
\* after a successful join: a room-info send that raised, WebSocketDisconnect,
\* or another exception of the receive loop.
C13_TerminatedHandlerUnregistered ==
    \A c \in Conns :
        pc[c] \in {"rejected", "crashed", "left", "errored"}
            => /\ c \notin DOMAIN connections
               /\ \A r \in DOMAIN rooms : c \notin rooms[r]

\* C14: no duplicate leave notification: once manager.disconnect has returned
\* the info dict of a connection, the connection is out of the identity map for
\* good, so that no later call could return the dict again, and each connection
\* has at most one user-left send for it, made while none had been made.
C14_NoDuplicateUserLeft ==
    /\ [](\A c \in Conns : HasLeft(c) => disconnect_info(connections, c) = NoInfo)
    /\ [](\A c, t \in Conns :
            Cardinality({ e \in sent[t] : e.msg.type = "user-left" /\ e.src = c }) <= 1)
    /\ [][\A c \in Conns :
            /\ (disconnect_info(connections, c) # NoInfo
                  /\ disconnect_info(connections', c) = NoInfo)
               => ~HasLeft(c) /\ HasLeft(c)'
            /\ HasLeft(c) => HasLeft(c)'
            /\ \A t \in Conns : \A e \in NewSends(t) :
                 (e.msg.type = "user-left" /\ e.src = c)
                 => /\ HasLeft(c)'
                    /\ \A x \in sent[t] : ~(x.msg.type = "user-left" /\ x.src = c)]_vars

\* C14 witness: a connection left a room of three, its user-left broadcast is
\* over, and each of the two others has exactly one user-left send for it.
C14_Witness ==
    \E c \in Conns :
        /\ pc[c] = "left" /\ bc[c].msg.type = "user-left"
        /\ Cardinality(bc[c].conns) = 2
        /\ \A t \in bc[c].conns :
             Cardinality({ e \in sent[t] : e.msg.type = "user-left" /\ e.src = c }) = 1

\* C15: room-info reaches a joining connection before any relay traffic: no
\* relayed event (chat, recording-*, consent-*, offer, answer, ice-candidate)
\* and no user-joined or user-left of another participant is sent on a
\* connection before the room-info of that connection has been sent, whatever
\* the interleaving with the handlers of the other connections of the room.
C15_RoomInfoBeforeRelayTraffic ==
    [][\A t \in Conns : \A e \in NewSends(t) :
         (e.msg.type \in P2PTypes \cup RoomTypes \cup OthersTypes
                                \cup {"user-joined", "user-left"}
            /\ e.src # t)
         => \E x \in sent[t] : x.msg.type = "room-info"]_vars

\* The list of info dicts of the connections of the set members under the
\* identity map cns, as a bag.
InfoBag(cns, members) ==
    [i \in { cns[w] : w \in members } |-> Cardinality({ w \in members : cns[w] = i })]

\* C16 (as stated): the participants of the room-info sent to a joining
\* connection are the info dicts of the current members of its room without
\* the joining connection itself.
C16_RoomInfoListsOthers ==
    [][\A c \in Conns : \A e \in NewSends(c) :
         e.msg.type = "room-info"
         => e.msg.participants =
              InfoBag(connections', room_snapshot(rooms', e.msg.room_id) \ {c})]_vars

\* C16 (amended): the participants of the room-info sent to a joining
\* connection are the info dicts of all the current members of its room at the
\* time the message is built, the joining connection's own dict included.
C16_RoomInfoListsAllMembers ==
    [][\A c \in Conns : \A e \in NewSends(c) :
         e.msg.type = "room-info"
         => /\ c \in room_snapshot(rooms', e.msg.room_id)
            /\ e.msg.participants =
                 InfoBag(connections', room_snapshot(rooms', e.msg.room_id))
            /\ connections'[c] \in DOMAIN e.msg.participants
            /\ Len_participants(e.msg.participants)
                 = Cardinality(room_snapshot(rooms', e.msg.room_id))]_vars

\* C16 witness: the second connection of a room took a room-info that lists two
\* participants, one of them with its own user_id.
C16_Witness ==
    \E c \in Conns : \E e \in sent[c] :
        /\ e.msg.type = "room-info" /\ e.ok
        /\ Len_participants(e.msg.participants) = 2
        /\ \E i \in DOMAIN e.msg.participants : i.user_id = e.msg.your_id
        /\ \E i \in DOMAIN e.msg.participants : i.user_id # e.msg.your_id

\* Handler c is past the room-info send of lines 116-121.
PastRoomInfo(c) ==
    \/ pc[c] \in {"recv", "raised_disconnect", "raised_exception", "crashed",
                  "left", "errored"}
    \/ pc[c] = "bcast" /\ bc[c].cont # "roominfo"

\* C17: each connection that joins has exactly one room-info send over its
\* lifetime, made by its own handler and on itself only, after its registration
\* and once its user-joined broadcast is over, before its handler has read any
\* inbound message, with room_id = the room it joined and your_id = the user_id
\* of its token.
C17_OneRoomInfoToSelf ==
    /\ [](\A c \in Conns :
            LET infos == { e \in sent[c] : e.msg.type = "room-info" }
            IN  /\ \A e \in infos : e.src = c /\ e.op = 0
                /\ Cardinality(infos) = IF PastRoomInfo(c) THEN 1 ELSE 0)
    /\ [][\A c \in Conns : \A e \in NewSends(c) :
            e.msg.type = "room-info"
            => /\ \A x \in sent[c] : x.msg.type # "room-info"
               /\ c \in DOMAIN connections' /\ c \in room_snapshot(rooms', e.msg.room_id)
               /\ bc'[c].msg.type = "user-joined" /\ bc'[c].pend = {}
               /\ \A t \in bc'[c].conns \ {c} :
                    \E x \in sent'[t] : x.src = c /\ x.msg = bc'[c].msg
               /\ nmsg'[c] = 0
               /\ e.msg.room_id = connections'[c].room_id
               /\ e.msg.your_id = connections'[c].user_id]_vars
    /\ [][\A c \in Conns, room_id \in RoomIds, token \in IssuedTokens :
            Join(c, room_id, token)
            => /\ connections'[c].room_id = room_id
               /\ connections'[c].user_id = token.sub
               /\ \A e \in NewSends(c) :
                    e.msg.room_id = room_id /\ e.msg.your_id = token.sub]_vars
    /\ [][\A c \in Conns :
            RoomInfo(c)
            => \E e \in NewSends(c) :
                 /\ e.msg.type = "room-info"
                 /\ e.msg.room_id = local[c].room_id
                 /\ e.msg.your_id = local[c].user_id]_vars

\* C17 witness: a connection joined a room that had a member, told it with
\* user-joined, took its room-info, read a message, and has that one room-info.
C17_Witness ==
    \E c \in Conns : \E t \in bc[c].conns \ {c} :
        /\ pc[c] = "recv" /\ nmsg[c] = 1
        /\ \E x \in sent[t] : x.src = c /\ x.msg.type = "user-joined"
        /\ \E e \in sent[c] :
             /\ e.msg.type = "room-info" /\ e.ok /\ e.src = c
             /\ e.msg.room_id = local[c].room_id /\ e.msg.your_id = local[c].user_id
        /\ Cardinality({ e \in sent[c] : e.msg.type = "room-info" }) = 1

\* C18: manager.disconnect is idempotent. On any registry the handlers can
\* produce, the first call for a registered connection returns its info dict
\* and takes it, and nothing else, out of both maps; a call after that one, or
\* a call for a connection that never joined, returns None and leaves the room
\* map and the identity map as they are.
C18_DisconnectIdempotent ==
    \A w \in Conns :
        LET info == disconnect_info(connections, w)
            rms1 == disconnect_rooms(rooms, connections, w)
            cns1 == disconnect_connections(connections, w)
        IN  /\ w \in DOMAIN connections
                => /\ info = connections[w]
                   /\ w \notin DOMAIN cns1
                   /\ \A r \in RoomIds : w \notin room_snapshot(rms1, r)
                   /\ \A v \in Conns \ {w} : \A r \in RoomIds :
                        v \in room_snapshot(rms1, r) <=> v \in room_snapshot(rooms, r)
                   /\ \A v \in DOMAIN connections \ {w} :
                        v \in DOMAIN cns1 /\ cns1[v] = connections[v]
            /\ w \notin DOMAIN connections
                => /\ info = NoInfo
                   /\ rms1 = rooms
                   /\ cns1 = connections
            /\ disconnect_info(cns1, w) = NoInfo
            /\ disconnect_rooms(rms1, cns1, w) = rms1
            /\ disconnect_connections(cns1, w) = cns1

\* C18 witness: a registry with a registered connection, a connection that has
\* been disconnected, and one that never joined.
C18_Witness ==
    \E a, c, d \in Conns :
        /\ a \in DOMAIN connections /\ a \in rooms[connections[a].room_id]
        /\ HasLeft(c) /\ c \notin DOMAIN connections
        /\ pc[d] = "rejected" /\ d \notin DOMAIN connections

\* C19: an inbound message whose type is none of the kinds of the if/elif chain
\* (a message without a type key included) is ignored: no send is made on any
\* connection, the registry is as it was, and the handler of the sender is back
\* at receive_json, still registered.
C19_UnknownTypeIgnored ==
    [][\A c \in Conns, data \in Inbound :
         (data.type \notin KnownTypes /\ Receive(c, data))
         => /\ Recipients = {}
            /\ UNCHANGED <<sent, rooms, connections, transport, closeSent>>
            /\ pc' = pc /\ pc'[c] = "recv"
            /\ c \in DOMAIN connections'
            /\ c \in room_snapshot(rooms', local[c].room_id)]_vars

\* C19 witness: a handler read a message, is back at receive_json, and made no
\* send for it, in a room where any message of a recognised kind addressed to
\* a user would have been sent: the room holds both users, all sockets open.
C19_Witness ==
    \E c \in Conns : \E t \in room_snapshot(rooms, local[c].room_id) :
        /\ pc[c] = "recv" /\ nmsg[c] = 1
        /\ connections[t].user_id # connections[c].user_id
        /\ transport[c] = "open" /\ transport[t] = "open"
        /\ \A x \in Conns : \A e \in sent[x] : ~(e.src = c /\ e.op = 1)

\* C20: in every reachable state each registered connection is in the set of
\* exactly one room, the room of its info dict; every member of a room's set
\* has an info dict; and the room_id, user_id and user_role recorded for a
\* connection are the ones it joined with for as long as it is registered.
C20_RegistryConsistent ==
    /\ [](\A c \in DOMAIN connections :
            /\ { r \in DOMAIN rooms : c \in rooms[r] } = {connections[c].room_id}
            /\ connections[c] = local[c])
    /\ [](\A r \in DOMAIN rooms : rooms[r] \subseteq DOMAIN connections)
    /\ [][\A c \in DOMAIN connections :
            c \in DOMAIN connections' => connections'[c] = connections[c]]_vars
    /\ [][\A c \in Conns, room_id \in RoomIds, token \in IssuedTokens :
            Join(c, room_id, token)
            => connections'[c] = [room_id |-> room_id, user_id |-> token.sub,
                                  user_role |-> token.role]]_vars

\* C20 witness: two rooms are in use, one with two registered connections that
\* have relayed or been sent events, after the third connection's join.
C20_Witness ==
    \E a, b, c \in Conns :
        /\ a # b
        /\ a \in DOMAIN connections /\ b \in DOMAIN connections
        /\ c \in DOMAIN connections
        /\ connections[a].room_id = connections[b].room_id
        /\ connections[c].room_id # connections[a].room_id
        /\ connections[a].user_id # connections[b].user_id
        /\ TotalMsgs = 1

\* The call of broadcast_to_room handler c is in: its operation and message.
BroadcastCall(b) == <<b.op, b.msg>>

\* C24: the recipients of a broadcast are fixed when it starts. The copy is the
\* room's set at the moment of the call and stays what it is while the sends
\* are made; the sends of the broadcast are made on the connections of the
\* copy other than the excluded one and on no other, so a connection that joins
\* meanwhile is not sent to and a connection that leaves meanwhile still is;
\* and the loop is never left before the copy is exhausted.
C24_RecipientsFixedAtStart ==
    /\ [](\A c \in Conns : bc[c].msg # NoMsg
            => /\ BroadcastCoversCopy(c)
               /\ bc[c].excl \subseteq {c}
               /\ \A t \in Conns :
                    BroadcastEntries(c, t) # {} => t \in bc[c].conns \ bc[c].excl)
    /\ [][\A c \in Conns :
            IF BroadcastCall(bc'[c]) # BroadcastCall(bc[c])
            THEN bc'[c].conns = room_snapshot(rooms', local'[c].room_id)
            ELSE /\ bc'[c].conns = bc[c].conns
                 /\ bc'[c].excl = bc[c].excl
                 /\ bc'[c].pend \subseteq bc[c].pend]_vars
    /\ [][\A c, t \in Conns : \A e \in NewSends(t) :
            (e.src = c /\ e.msg.type \in RoomTypes \cup OthersTypes
                                          \cup {"user-joined", "user-left"})
            => /\ BroadcastCall(bc'[c]) = <<e.op, e.msg>>
               /\ t \in bc'[c].conns \ bc'[c].excl
               /\ t \in IF BroadcastCall(bc'[c]) = BroadcastCall(bc[c])
                        THEN bc[c].pend
                        ELSE room_snapshot(rooms', local'[c].room_id)
               /\ t \notin bc'[c].pend]_vars

\* C24 witness: a broadcast is in progress; a connection that joined the room
\* after it started is in the room and not in the copy, and a connection of
\* the copy that has left the room meanwhile is still to be sent to.
C24_Witness ==
    \E c, j, l \in Conns :
        /\ pc[c] = "bcast" /\ bc[c].cont = "recv"
        /\ j \in room_snapshot(rooms, local[c].room_id) /\ j \notin bc[c].conns
        /\ l \in bc[c].pend /\ HasLeft(l)
        /\ l \notin room_snapshot(rooms, local[c].room_id)

\* The members of handler c's room that are registered under user u.
SameUser(c, u) ==
    { w \in room_snapshot(rooms, local[c].room_id) :
        w \in DOMAIN connections /\ connections[w].user_id = u }

\* C26: send_to_user stops at the first connection of the room whose user_id
\* matches, whether the send on it fails or not: when the target user has
\* several connections in the room, one message has the send made on exactly
\* one of them, and none of the others is tried for it.
C26_SendToUserStopsAtFirstMatch ==
    /\ [](\A r \in RoomIds, u \in UserIds :
            \A T \in send_to_user_sends(rooms, connections, r, u) :
                Cardinality(T) =
                    IF \E w \in room_snapshot(rooms, r) : connections[w].user_id = u
                    THEN 1 ELSE 0)
    /\ [][\A c \in Conns, data \in Inbound :
            (Route(data.type) = "user" /\ SameUser(c, data.target_id) # {}
                /\ Receive(c, data))
            => /\ Cardinality(Recipients) = 1
               /\ Recipients \subseteq SameUser(c, data.target_id)
               /\ \A t \in Recipients :
                    /\ \A e \in NewSends(t) :
                         /\ e.src = c /\ e.op = nmsg'[c]
                         /\ e.ok = (transport[t] = "open")
                    /\ \A w \in SameUser(c, data.target_id) \ {t} :
                         \A x \in sent'[w] : ~(x.src = c /\ x.op = nmsg'[c])
               /\ pc'[c] = "recv"]_vars

\* C26 witness: a user has a stale (dropped) connection and a live one in a
\* room; a negotiation message for that user had its send made on the stale
\* one, where it failed, and the live one was not tried.
C26_Witness ==
    \E c, a, b \in Conns :
        /\ a # b /\ pc[c] = "recv" /\ nmsg[c] = 1
        /\ {a, b} \subseteq room_snapshot(rooms, local[c].room_id)
        /\ connections[a].user_id = connections[b].user_id
        /\ transport[a] = "dropped" /\ transport[b] = "open"
        /\ \E e \in sent[a] :
             e.src = c /\ e.op = 1 /\ ~e.ok /\ e.msg.type \in P2PTypes
        /\ \A x \in sent[b] : ~(x.src = c /\ x.op = 1)

\* C29: rooms are isolated. Every send_json call made on a connection, for a
\* relayed message, user-joined, user-left, room-info or pong, was caused by a
\* handler registered in a room that the connection joined too; a connection
\* that never joined room R is sent nothing that comes from R.
C29_RoomsIsolated ==
    \A t \in Conns : \A e \in sent[t] :
        /\ pc[e.src] \notin {"new", "rejected"}
        /\ HasJoined(t, local[e.src].room_id)
        /\ e.msg.type = "room-info" => e.msg.room_id = local[t].room_id

\* C29 witness: two rooms are in use; a connection of one relayed an event that
\* another member of its room took, and the connection in the other room has
\* been sent nothing but its own room-info.
C29_Witness ==
    \E a, b, c \in Conns :
        /\ a # c
        /\ local[a].room_id = local[c].room_id /\ local[b].room_id # local[a].room_id
        /\ {a, b, c} \subseteq DOMAIN connections
        /\ \E e \in sent[c] : e.src = a /\ e.ok /\ e.msg.type \in RoomTypes \cup P2PTypes
        /\ \A e \in sent[b] : e.src = b /\ e.msg.type = "room-info"
        /\ sent[b] # {}

\* Handler c is past the user-joined broadcast of manager.connect.
PastUserJoined(c) == pc[c] = "roominfo" \/ PastRoomInfo(c)

\* C30: two connections registered in the same room at the same time learn of
\* each other, whatever the interleaving of their joins. Connections register
\* in the order they arrive, so of two the lower-numbered registered first:
\* it is in the copy of the later one's user-joined broadcast and, once that
\* broadcast is over, has had the later one's user-joined sent on it; and the
\* room-info of the later one lists the record of each earlier one that is
\* still registered.
C30_PeersLearnOfEachOther ==
    \A a, b \in DOMAIN connections :
        (a < b /\ connections[a].room_id = connections[b].room_id)
        => /\ bc[b].msg.type = "user-joined" => a \in bc[b].conns \ bc[b].excl
           /\ PastUserJoined(b)
                => \E e \in sent[a] :
                     /\ e.src = b /\ e.msg.type = "user-joined"
                     /\ e.msg.user_id = connections[b].user_id
                     /\ e.msg.user_role = connections[b].user_role
           /\ PastRoomInfo(b)
                => \E e \in sent[b] :
                     /\ e.msg.type = "room-info"
                     /\ connections[a] \in DOMAIN e.msg.participants
                     /\ e.msg.participants[connections[a]] >=
                          Cardinality({ w \in DOMAIN connections :
                              /\ w <= b
                              /\ connections[w] = connections[a] })

\* C30 witness: three connections of two users are registered in one room; the
\* last to register is back from its room-info, which lists three
\* participants, and both earlier ones took its user-joined.
C30_Witness ==
    \E a, b, c \in DOMAIN connections :
        /\ a < b /\ b < c
        /\ connections[a].room_id = connections[c].room_id
        /\ connections[b].room_id = connections[c].room_id
        /\ connections[a].user_id # connections[c].user_id
        /\ pc[c] = "recv"
        /\ \E e \in sent[c] :
             e.msg.type = "room-info" /\ e.ok /\ Len_participants(e.msg.participants) = 3
        /\ \A w \in {a, b} : \E e \in sent[w] :
             e.src = c /\ e.msg.type = "user-joined" /\ e.ok

\* The keys that carry the sender's user_id in the events of the receive loop.
SenderFields == {"from_id", "started_by", "stopped_by", "requested_by"}

\* C28: the sender identity of every relayed event (from_id, from_role,
\* started_by, stopped_by, requested_by) is the user_id and the role that the
\* handler decoded from the connection's own token at join time; it does not
\* depend on any field of the inbound message, a from_id written by the client
\* included, so no participant can emit an event attributed to another user.
C28_SenderIdentityFromToken ==
    /\ [][\A c \in Conns, room_id \in RoomIds, token \in IssuedTokens :
            Join(c, room_id, token)
            => /\ local'[c].user_id = token.sub
               /\ local'[c].user_role = token.role]_vars
    /\ [][\A c \in Conns : pc[c] \notin {"new", "rejected"} => local'[c] = local[c]]_vars
    /\ [][\A t \in Conns : \A e \in NewSends(t) :
            e.msg.type \in P2PTypes \cup RoomTypes \cup OthersTypes
            => /\ Cardinality(DOMAIN e.msg \cap SenderFields) = 1
               /\ \A f \in DOMAIN e.msg \cap SenderFields :
                    e.msg[f] = local[e.src].user_id
               /\ "from_role" \in DOMAIN e.msg
                    => e.msg.from_role = local[e.src].user_role
               /\ \E data \in Inbound :
                    /\ data.from_id = None
                    /\ e.msg = RelayMsg(data, local[e.src].user_id,
                                        local[e.src].user_role)]_vars

\* C28 witness: in a room with both users, the connection of one relayed a chat
\* message, and the other took it with the from_id and from_role of the
\* sender's token.
C28_Witness ==
    \E c, t \in DOMAIN connections : \E e \in sent[t] :
        /\ connections[c].user_id # connections[t].user_id
        /\ connections[c].room_id = connections[t].room_id
        /\ e.src = c /\ e.ok /\ e.msg.type = "chat"
        /\ e.msg.from_id = connections[c].user_id
        /\ e.msg.from_role = connections[c].user_role

\* C21 (as stated): every info dict of the registry has a user_role that is
\* doctor or patient, for every token that passes the check of lines 103-106,
\* a token with sub and without a role claim included.
C21_RoleIsDoctorOrPatient ==
    \A c \in DOMAIN connections : connections[c].user_role \in UserRoles

\* C21 (amended): the user_role of an info dict is the role claim of the token
\* when the token has one, which is then doctor or patient, and the string
\* "unknown" when the token has sub but no role claim.
C21_RoleIsClaimOrUnknown ==
    /\ [](\A c \in DOMAIN connections :
            connections[c].user_role \in UserRoles \cup {"unknown"})
    /\ [][\A c \in Conns, room_id \in RoomIds, token \in RoleTokens :
            (Join(c, room_id, token) /\ c \in DOMAIN connections')
            => /\ token.role \in UserRoles \cup {None}
               /\ connections'[c].user_role =
                    IF token.role = None THEN "unknown" ELSE token.role
               /\ bc'[c].msg.user_role = connections'[c].user_role]_vars

\* C21 witness: a connection that joined with a token without a role claim is
\* registered as "unknown", and another member of its room took its
\* user-joined with that role.
C21_Witness ==
    \E c \in DOMAIN connections : \E t \in DOMAIN connections : \E e \in sent[t] :
        /\ connections[c].user_role = "unknown"
        /\ connections[t].user_role = "doctor"
        /\ e.src = c /\ e.ok /\ e.msg.type = "user-joined"
        /\ e.msg.user_role = "unknown"

\* C25 (as stated): while handler c is suspended in a send that does not
\* complete, every other handler that waits in receive_json still takes and
\* dispatches an inbound message, and the connections of the broadcast that
\* come after the pending one still get the message: the next send of the
\* broadcast can be made without the pending one returning.
C25_SlowPeerDoesNotStall ==
    \A c \in Conns :
        pc[c] = "blocked"
        => /\ \A d \in Conns \ {c} :
                (pc[d] = "recv" /\ TotalMsgs < MaxMsgs)
                => \A data \in Inbound : ENABLED Receive(d, data)
           /\ bc[c].pend \ {awaiting[c]} # {} => ENABLED BroadcastStep(c)

\* C22 (as stated): an update_appointment call by the patient of the
\* appointment leaves the status as it is or makes it cancelled; it never
\* makes it confirmed, completed or pending.
C22_PatientOnlyCancels ==
    [][\A a \in Appts, new_status \in AppointmentStatuses \cup {None} :
        UpdateAppointment([id |-> patient_id, role |-> "patient"], a, new_status)
        => /\ appointments'[a] \in {appointments[a], "cancelled"}
           /\ \A b \in Appts \ {a} : appointments'[b] = appointments[b]]_vars

\* The appointments of a run's window that have no notification of the
\* reminder type yet.
not_yet_reminded == { a \in in_window(appointments) : notifications[a] = 0 }

\* C27 (as stated): a run of send_upcoming_reminders ends without error
\* whatever earlier runs left; it leaves the appointments that have
\* notifications of the type alone (no email, no row), and for each of the
\* others in the window it sends the two emails and commits the two rows; it
\* returns the number of those others.
C27_RepeatedRunsSkipReminded ==
    [][\A order \in Orders(in_window(appointments)) :
        ReminderRun(order)
        => /\ ~lastrun'.raised
           /\ lastrun'.count = Cardinality(not_yet_reminded)
           /\ \A a \in Appts :
                IF a \in not_yet_reminded
                THEN /\ emails'[a] = emails[a] + 2
                     /\ notifications'[a] = 2
                ELSE /\ emails'[a] = emails[a]
                     /\ notifications'[a] = notifications[a]]_vars

====
